---- MODULE Spec2Model ----
(***************************************************************************)
(* BioActivityGraph (version 2.0, no React): the chart built from the      *)
(* ChEMBL compound record, its colour and shape tables, the modal dialog   *)
(* that adds entries to them, and the jitter / violin check boxes.         *)
(*                                                                         *)
(* Numbers.  x positions are kept exact: with n labels on the band scale   *)
(* and RandLevels possible values of Math.random(), one unit of x is       *)
(* 1 / ((20 n + 1) * RandLevels) pixel.  y positions are pixels, rounded   *)
(* down, from logarithms kept in thousandths of a decade.                  *)
(***************************************************************************)
EXTENDS Integers, Sequences, FiniteSets, TLC

VARIABLES
    proteins,      \* chemblObj.targetProteins, the record the query returns
    phase,         \* "mounted" | "ready" | "nodata" | "failed"
    colors,        \* this._colors, a Map: sequence of [k, v] in insertion order
    shapes,        \* this._shapes
    data,          \* this._data, the points
    xLabels,       \* domain of this._xAxis.scale()
    yDomain,       \* domain of this._yAxis.scale()
    bins,          \* this._bins
    jitter,        \* #cb-jitter checked
    violin,        \* #cb-violin checked
    violinsShown,  \* g#violins is in the canvas
    drawn,         \* the paths of g#points, as plotData last joined them
    colorRows,     \* the rows of div#color-div (their data-key)
    shapeRows,     \* the rows of div#shape-div
    modal,         \* the DOM of div#modal-bioActivity
    err            \* what the last event handler threw ("none" when it returned)

vars == <<proteins, phase, colors, shapes, data, xLabels, yDomain, bins, jitter,
          violin, violinsShown, drawn, colorRows, shapeRows, modal, err>>

-----------------------------------------------------------------------------
(* Bounds of the model *)

MaxProteins == 2
MaxActs == 2
MaxRules == 2
RandLevels == 2
NColorPick == 1
NShapePick == 2

-----------------------------------------------------------------------------
(* JavaScript values *)

Undefined == "<undefined>"
NoneChecked == "<none>"

\* `${d}` of a template literal
ToStr(v) == IF v = Undefined THEN "undefined" ELSE v

\* p[f] of an object: undefined when it has no such property
Get(p, f) == IF f \in DOMAIN p THEN p[f] ELSE Undefined

Put(p, f, v) == [g \in (DOMAIN p) \cup {f} |-> IF g = f THEN v ELSE p[g]]

Range(s) == {s[i] : i \in DOMAIN s}

RECURSIVE SeqSum(_)
SeqSum(s) == IF s = <<>> THEN 0 ELSE Head(s) + SeqSum(Tail(s))

RECURSIVE Flatten(_)
Flatten(ss) == IF ss = <<>> THEN <<>> ELSE Head(ss) \o Flatten(Tail(ss))

RECURSIVE Distinct(_)
Distinct(s) ==
    IF s = <<>> THEN <<>>
    ELSE LET r == Distinct(SubSeq(s, 1, Len(s) - 1))
             x == s[Len(s)]
         IN  IF x \in Range(r) THEN r ELSE Append(r, x)

RECURSIVE Ascending(_)
Ascending(S) ==
    IF S = {} THEN <<>>
    ELSE LET m == CHOOSE x \in S : \A y \in S : x <= y
         IN  <<m>> \o Ascending(S \ {m})

SeqsUpTo(S, n) == UNION {[1..k -> S] : k \in 0..n}

-----------------------------------------------------------------------------
(* Map (ECMAScript): insertion-ordered, set() keeps the place of a key *)

MapKeys(m) == [i \in DOMAIN m |-> m[i].k]

MapHas(m, key) == \E i \in DOMAIN m : m[i].k = key

MapGet(m, key) ==
    IF MapHas(m, key) THEN m[CHOOSE i \in DOMAIN m : m[i].k = key].v ELSE Undefined

MapSetClobber(m, key, val) == <<[k |-> key, v |-> val]>>

MapSet(m, key, val) ==
    IF MapHas(m, key)
    THEN [i \in DOMAIN m |-> IF m[i].k = key THEN [k |-> key, v |-> val] ELSE m[i]]
    ELSE Append(m, [k |-> key, v |-> val])

RECURSIVE MapDelete(_, _)
MapDelete(m, key) ==
    IF m = <<>> THEN <<>>
    ELSE IF Head(m).k = key THEN MapDelete(Tail(m), key)
    ELSE <<Head(m)>> \o MapDelete(Tail(m), key)

-----------------------------------------------------------------------------
(* The record the query returns (index.js, the select list of the query) *)

Protein(sym, acc, org, acts) ==
    [protein |-> [symbol |-> sym, primaryAccession |-> acc, organism |-> org],
     activities |-> acts]

Activity(t, c, u) == [type |-> t, conc |-> c, unit |-> u]

\* protein.organism: the object with its name, or undefined
Organism(n) == [defined |-> TRUE, name |-> n]

NoOrganism == [defined |-> FALSE, name |-> Undefined]

\* protein descriptors and activity records the inputs are built from
ProteinHeads ==
    { <<"GA", "P1", Organism("Hs")>>,
      <<"Default", "P2", Organism("Hs")>>,
      <<"GB", "P2", NoOrganism>> }

ActivityOptions ==
    { Activity("IC50", 10, "nM"), Activity("IC50", 500, "nM"), Activity("Ki", 500, "nM") }

LoadInputs ==
    SeqsUpTo({Protein(h[1], h[2], h[3], a) :
                  h \in ProteinHeads, a \in SeqsUpTo(ActivityOptions, MaxActs)},
             MaxProteins)

\* one protein whose activities carry the concentrations the y scale is built from
MaxValues == 3

ScaleValues == {1, 7, 10, 100, 1000}

ScaleInputs ==
    { <<Protein("GA", "P1", Organism("Hs"), [j \in DOMAIN vs |-> Activity("IC50", vs[j], "nM")])>> :
          vs \in SeqsUpTo(ScaleValues, MaxValues) }

\* two proteins, the symbol of one (the mouse gene Star) being the name of a shape
CrossInputs ==
    { <<Protein("Star", "P1", Organism("Mm"), <<Activity("IC50", 10, "nM")>>),
        Protein("GB", "P2", Organism("Mm"), <<Activity("IC50", 500, "nM")>>)>> }

\* the records the interaction specification starts from
ChartInputs ==
    { <<>>,
      <<Protein("GA", "P1", Organism("Hs"), <<>>)>>,
      <<Protein("Default", "P1", Organism("Hs"), <<Activity("IC50", 10, "nM")>>)>>,
      <<Protein("GA", "P1", Organism("Hs"),
                <<Activity("IC50", 10, "nM"), Activity("Ki", 500, "nM")>>)>> }

-----------------------------------------------------------------------------
(* loadData *)

loadDataNoOrder(ps) ==
    Flatten([i \in DOMAIN ps |->
        [j \in DOMAIN ps[i].activities |->
            LET p == ps[i]
                a == ps[i].activities[Len(ps[i].activities) + 1 - j]
            IN  [symbol |-> p.protein.symbol,
                 primaryAccession |-> p.protein.primaryAccession,
                 organism |-> p.protein.organism.name,
                 value |-> a.conc,
                 type |-> a.type,
                 unit |-> a.unit]]])

loadData(ps) ==
    Flatten([i \in DOMAIN ps |->
        [j \in DOMAIN ps[i].activities |->
            LET p == ps[i]
                a == ps[i].activities[j]
            IN  [symbol |-> p.protein.symbol,
                 primaryAccession |-> p.protein.primaryAccession,
                 organism |-> p.protein.organism.name,
                 value |-> a.conc,
                 type |-> a.type,
                 unit |-> a.unit]]])

\* p.protein.organism.name of an undefined organism is a TypeError
loadDataThrows(ps) ==
    \E i \in DOMAIN ps :
        ps[i].activities # <<>> /\ ~ps[i].protein.organism.defined

-----------------------------------------------------------------------------
(* Scales *)

Width == 400
Height == 400
Margin == 40
PaddingInv == 20      \* padding(0.05) is one twentieth of a step

RECURSIVE Pow10(_)
Pow10(e) == IF e = 0 THEN 1 ELSE 10 * Pow10(e - 1)

RECURSIVE FloorLog10(_)
FloorLog10(v) == IF v < 10 THEN 0 ELSE 1 + FloorLog10(v \div 10)

CeilLog10(v) == IF Pow10(FloorLog10(v)) = v THEN FloorLog10(v) ELSE FloorLog10(v) + 1

\* log10 of 1..9 in thousandths
DigitLog == <<0, 301, 477, 602, 699, 778, 845, 903, 954>>

\* Math.log10 in thousandths, exact on the leading digit
Log10m(v) == 1000 * FloorLog10(v) + DigitLog[v \div Pow10(FloorLog10(v))]

initXAxisLastFirst(d) ==
    LET l == Distinct([i \in DOMAIN d |-> d[i].type])
    IN  [i \in DOMAIN l |-> l[Len(l) + 1 - i]]

initXAxis(d) == Distinct([i \in DOMAIN d |-> d[i].type])

initYAxisCeilOnly(d) ==
    IF d = <<>> THEN [valid |-> FALSE, lo |-> 0, hi |-> 0]
    ELSE LET vs == {d[i].value : i \in DOMAIN d}
             min == CHOOSE x \in vs : \A y \in vs : x <= y
             max == CHOOSE x \in vs : \A y \in vs : x >= y
         IN  [valid |-> TRUE, lo |-> Pow10(CeilLog10(min)), hi |-> Pow10(CeilLog10(max))]

\* scaleLog().domain([min, max]).nice(); of no point the domain is [Infinity, NaN]
initYAxis(d) ==
    IF d = <<>> THEN [valid |-> FALSE, lo |-> 0, hi |-> 0]
    ELSE LET vs == {d[i].value : i \in DOMAIN d}
             min == CHOOSE x \in vs : \A y \in vs : x <= y
             max == CHOOSE x \in vs : \A y \in vs : x >= y
         IN  [valid |-> TRUE, lo |-> Pow10(FloorLog10(min)), hi |-> Pow10(CeilLog10(max))]

RangeLen == Width - Margin - Margin

\* scaleBand over n labels: start of the band of the i-th label (from 1), band width
BandStart(n, i) == RangeLen * (1 + PaddingInv * (i - 1)) * RandLevels

Bandwidth(n) == RangeLen * (PaddingInv - 1) * RandLevels

IndexOf(s, x) == CHOOSE i \in DOMAIN s : s[i] = x

\* scaleLog: range [height - bottom, top]; a domain of one value maps to the middle
YScale(dom, v) ==
    IF dom.lo = dom.hi THEN (Height - Margin + Margin) \div 2
    ELSE (Height - Margin)
           - ((Height - Margin - Margin) * (Log10m(v) - Log10m(dom.lo)))
                 \div (Log10m(dom.hi) - Log10m(dom.lo))

\* initHistogramBins(nBins=10)
nBins == 10

\* scale.ticks(10) of the log scale
Ticks(dom) ==
    IF ~dom.valid THEN <<>>
    ELSE LET z == Ascending({t \in {k * Pow10(e) : k \in 1..9,
                                  e \in FloorLog10(dom.lo)..CeilLog10(dom.hi)} :
                                  dom.lo <= t /\ t <= dom.hi})
         IN  IF Len(z) * 2 < 10 THEN <<dom.lo>> ELSE z

HistogramOpenBelow(dom, tz, vs) ==
    LET th == Ascending({t \in Range(tz) : t > dom.lo /\ t <= dom.hi})
        m == Len(th)
        bisect(x) == Cardinality({i \in 1..m : th[i] <= x}) + 1
    IN  [i \in 1..(m + 1) |->
            [x0 |-> IF i > 1 THEN th[i - 1] ELSE dom.lo,
             x1 |-> IF i <= m THEN th[i] ELSE dom.hi,
             values |-> SelectSeq(vs, LAMBDA x :
                            dom.lo < x /\ x <= dom.hi /\ bisect(x) = i)]]

\* d3.bin().domain(dom).thresholds(tz) applied to the values vs
Histogram(dom, tz, vs) ==
    LET th == Ascending({t \in Range(tz) : t > dom.lo /\ t <= dom.hi})
        m == Len(th)
        bisect(x) == Cardinality({i \in 1..m : th[i] <= x}) + 1
    IN  [i \in 1..(m + 1) |->
            [x0 |-> IF i > 1 THEN th[i - 1] ELSE dom.lo,
             x1 |-> IF i <= m THEN th[i] ELSE dom.hi,
             values |-> SelectSeq(vs, LAMBDA x :
                            dom.lo <= x /\ x <= dom.hi /\ bisect(x) = i)]]

\* d3.rollup(data, histogram of the values, d => d.type)
initHistogramBins(d, dom) ==
    LET types == Distinct([i \in DOMAIN d |-> d[i].type])
        ofType(t) == SelectSeq(d, LAMBDA p : p.type = t)
    IN  [i \in DOMAIN types |->
            [k |-> types[i],
             v |-> Histogram(dom, Ticks(dom),
                             [j \in DOMAIN ofType(types[i]) |-> ofType(types[i])[j].value])]]

-----------------------------------------------------------------------------
(* Layout *)

updatePointPositionsWholeBand(d, labels, dom, jit, vio, rnd) ==
    LET xwidth == Bandwidth(Len(labels)) \div 4
        dx(i) == IF jit /\ vio THEN 2 * xwidth - (xwidth \div RandLevels) * rnd[i]
                 ELSE IF jit THEN 4 * (xwidth \div RandLevels) * rnd[i]
                 ELSE 2 * xwidth
    IN  [i \in DOMAIN d |->
            Put(Put(d[i], "x", BandStart(Len(labels), IndexOf(labels, d[i].type)) + dx(i)),
                "y", YScale(dom, d[i].value))]

updatePointPositionsViolinSide(d, labels, dom, jit, vio, rnd) ==
    LET xwidth == Bandwidth(Len(labels)) \div 4
        dx(i) == IF jit /\ vio THEN 2 * xwidth + (xwidth \div RandLevels) * rnd[i]
                 ELSE IF jit THEN xwidth + 2 * (xwidth \div RandLevels) * rnd[i]
                 ELSE 2 * xwidth
    IN  [i \in DOMAIN d |->
            Put(Put(d[i], "x", BandStart(Len(labels), IndexOf(labels, d[i].type)) + dx(i)),
                "y", YScale(dom, d[i].value))]

updatePointPositionsJitterY(d, labels, dom, jit, vio, rnd) ==
    LET xwidth == Bandwidth(Len(labels)) \div 4
        dx(i) == IF jit /\ vio THEN 2 * xwidth - (xwidth \div RandLevels) * rnd[i]
                 ELSE IF jit THEN xwidth + 2 * (xwidth \div RandLevels) * rnd[i]
                 ELSE 2 * xwidth
    IN  [i \in DOMAIN d |->
            Put(Put(d[i], "x", BandStart(Len(labels), IndexOf(labels, d[i].type)) + dx(i)),
                "y", YScale(dom, d[i].value) + (IF jit THEN 1 + rnd[i] ELSE 0))]

updatePointPositionsJitterOn(d, labels, dom, jit, vio, rnd) ==
    LET xwidth == Bandwidth(Len(labels)) \div 4
        dx(i) == IF vio THEN 2 * xwidth - (xwidth \div RandLevels) * rnd[i]
                 ELSE xwidth + 2 * (xwidth \div RandLevels) * rnd[i]
    IN  [i \in DOMAIN d |->
            Put(Put(d[i], "x", BandStart(Len(labels), IndexOf(labels, d[i].type)) + dx(i)),
                "y", YScale(dom, d[i].value))]

\* rnd[i] / RandLevels is what Math.random() returns for the i-th point
updatePointPositions(d, labels, dom, jit, vio, rnd) ==
    LET xwidth == Bandwidth(Len(labels)) \div 4
        dx(i) == IF jit /\ vio THEN 2 * xwidth - (xwidth \div RandLevels) * rnd[i]
                 ELSE IF jit THEN xwidth + 2 * (xwidth \div RandLevels) * rnd[i]
                 ELSE 2 * xwidth
    IN  [i \in DOMAIN d |->
            Put(Put(d[i], "x", BandStart(Len(labels), IndexOf(labels, d[i].type)) + dx(i)),
                "y", YScale(dom, d[i].value))]

Randoms(d, jit) == IF jit THEN [DOMAIN d -> 0..(RandLevels - 1)] ELSE {[i \in DOMAIN d |-> 0]}

\* the area of each entry of the bins: translated to the band start plus a tenth of
\* the band width, from x0 = xNum(0), the middle of [0, bandwidth], to xNum(length)
plotViolins(labels, bs) ==
    LET bw == Bandwidth(Len(labels))
        longest(e) == CHOOSE n \in {Len(e.v[b].values) : b \in DOMAIN e.v} :
                          \A b \in DOMAIN e.v : Len(e.v[b].values) <= n
        maxNum == IF bs = <<>> THEN 0
                  ELSE CHOOSE n \in {longest(bs[e]) : e \in DOMAIN bs} :
                           \A e \in DOMAIN bs : longest(bs[e]) <= n
        left(e) == BandStart(Len(labels), IndexOf(labels, e.k)) + bw \div 10
    IN  [e \in DOMAIN bs |->
            [k |-> bs[e].k,
             x0 |-> left(bs[e]) + bw \div 2,
             x1 |-> [b \in DOMAIN bs[e].v |->
                        left(bs[e]) + bw \div 2
                            + IF maxNum = 0 THEN 0
                              ELSE ((bw \div 2) * Len(bs[e].v[b].values)) \div maxNum]]]

-----------------------------------------------------------------------------
(* Classification *)

StringFields == {"symbol", "primaryAccession", "organism", "type", "unit", "color", "shape"}

\* Object.values(p), less the numbers: a key of the tables is a string (the value of
\* a radio input) and includes() never finds a string equal to a number
ObjectValues(p) == {p[f] : f \in (DOMAIN p) \cap StringFields}

FirstHit(table, p) ==
    LET hits == {i \in DOMAIN table : table[i].k \in ObjectValues(p)}
    IN  IF hits = {} THEN 0 ELSE CHOOSE i \in hits : \A j \in hits : i <= j

resolveNoFallback(table, p, field) ==
    LET h == FirstHit(table, p)
    IN  IF h = 0 THEN p ELSE Put(p, field, table[h].v)

\* the body of the map() of updatePointColors / updatePointShapes
resolve(table, p, field) ==
    LET p0 == Put(p, field, MapGet(table, "Default"))
        h == FirstHit(table, p0)
    IN  IF h = 0 THEN p0 ELSE Put(p0, field, table[h].v)

updatePointColors(table, d) == [i \in DOMAIN d |-> resolve(table, d[i], "color")]

updatePointShapesLastFirst(table, d) ==
    [i \in DOMAIN d |-> resolve(table, d[Len(d) + 1 - i], "shape")]

updatePointShapes(table, d) == [i \in DOMAIN d |-> resolve(table, d[i], "shape")]

ShapeOpts == <<"Circle", "Cross", "Diamond", "Square", "Star", "Triangle", "Wye">>

\* what plotData gives each path
plotData(d) ==
    [i \in DOMAIN d |-> [x |-> Get(d[i], "x"), y |-> Get(d[i], "y"),
                         fill |-> Get(d[i], "color"), shape |-> Get(d[i], "shape")]]

-----------------------------------------------------------------------------
(* The modal dialog *)

Kinds == {"Color", "Shape"}

Categories == <<"primaryAccession", "symbol", "type">>

DefaultColor == "#C0C0C0"

\* values the user may give the colour input, and the radio inputs the user may check
ColorChoices == SubSeq(<<"#000000", "#ff0000", "#00ff00", "#0000ff">>, 1, NColorPick)

ShapeChoices ==
    SubSeq(<<"Star", "Cross", "Circle", "Diamond", "Square", "Triangle", "Wye">>, 1, NShapePick)

ModalAtLoad ==
    [display |-> FALSE, type |-> "none", category |-> "primaryAccession",
     options |-> <<>>, checked |-> NoneChecked,
     input |-> [kind |-> "empty", value |-> NoneChecked]]

modalDisplayColorInput(m, type) ==
    [m EXCEPT !.display = TRUE,
              !.type = type,
              !.input = [kind |-> "color", value |-> "#000000"]]

modalDisplayKeepType(m, type) ==
    [m EXCEPT !.display = TRUE,
              !.type = IF m.type = "none" THEN type ELSE m.type,
              !.input = IF type = "Color"
                        THEN [kind |-> "color", value |-> "#000000"]
                        ELSE [kind |-> "radio", value |-> NoneChecked]]

modalDisplay(m, type) ==
    [m EXCEPT !.display = TRUE,
              !.type = type,
              !.input = IF type = "Color"
                        THEN [kind |-> "color", value |-> "#000000"]
                        ELSE [kind |-> "radio", value |-> NoneChecked]]

updateModalOptionsAll(m, d) ==
    [m EXCEPT !.options = [i \in DOMAIN d |-> ToStr(d[i][m.category])],
              !.checked = NoneChecked]

\* the labels of #panel-body-value are removed and joined anew, none checked
updateModalOptions(m, d) ==
    [m EXCEPT !.options = Distinct([i \in DOMAIN d |-> ToStr(d[i][m.category])]),
              !.checked = NoneChecked]

\* the rows of a table, one per key, each with its a.row-close
updateTableColor(table) == MapKeys(table)

updateTableShape(table) == MapKeys(table)

-----------------------------------------------------------------------------
(* Initial state: main() has set el.innerHTML, the records are being fetched *)

Blank ==
    /\ phase = "mounted"
    /\ colors = <<>>
    /\ shapes = <<>>
    /\ data = <<>>
    /\ xLabels = <<>>
    /\ yDomain = [valid |-> FALSE, lo |-> 0, hi |-> 0]
    /\ bins = <<>>
    /\ jitter = FALSE
    /\ violin = FALSE
    /\ violinsShown = FALSE
    /\ drawn = <<>>
    /\ colorRows = <<>>
    /\ shapeRows = <<>>
    /\ modal = ModalAtLoad
    /\ err = "none"

Init == proteins \in ChartInputs /\ Blank

InitLoad == proteins \in LoadInputs /\ Blank

-----------------------------------------------------------------------------
(* new BioActivityGraph(rows[0]) when the records arrive *)

noDataNever(ps) == FALSE

\* chemblObj.targetProteins.length === 0
noData(ps) == ps = <<>>

Construct ==
    /\ phase = "mounted"
    /\ IF noData(proteins)
       THEN /\ phase' = "nodata"
            /\ err' = "none"
            /\ UNCHANGED <<colors, shapes, data, xLabels, yDomain, bins, drawn,
                           colorRows, shapeRows, modal>>
       ELSE IF loadDataThrows(proteins)
       THEN /\ phase' = "failed"
            /\ err' = "TypeError"
            /\ UNCHANGED <<colors, shapes, data, xLabels, yDomain, bins, drawn,
                           colorRows, shapeRows, modal>>
       ELSE \E rnd \in Randoms(loadData(proteins), jitter) :
            LET c0 == <<[k |-> "Default", v |-> DefaultColor]>>
                s0 == <<[k |-> "Default", v |-> "Circle"]>>
                d0 == loadData(proteins)
                xl == initXAxis(d0)
                yd == initYAxis(d0)
                d1 == updatePointPositions(d0, xl, yd, jitter, violin, rnd)
                d2 == updatePointColors(c0, d1)
                d3 == updatePointShapes(s0, d2)
            IN  /\ phase' = "ready"
                /\ colors' = c0
                /\ shapes' = s0
                /\ data' = d3
                /\ xLabels' = xl
                /\ yDomain' = yd
                /\ bins' = initHistogramBins(d3, yd)
                /\ colorRows' = updateTableColor(c0)
                /\ shapeRows' = updateTableShape(s0)
                /\ modal' = updateModalOptions(modal, d3)
                /\ drawn' = plotData(d3)
                /\ err' = "none"
    /\ UNCHANGED <<proteins, jitter, violin, violinsShown>>

-----------------------------------------------------------------------------
(* The Add buttons, the inputs of the dialog, Apply and the close anchor *)

AddClick(kind) ==
    /\ phase = "ready"
    /\ modal' = modalDisplay(modal, kind)
    /\ err' = "none"
    /\ UNCHANGED <<proteins, phase, colors, shapes, data, xLabels, yDomain, bins,
                   jitter, violin, violinsShown, drawn, colorRows, shapeRows>>

\* checking another radio of #panel-body-category fires its change handler
CategoryChange(c) ==
    /\ phase = "ready"
    /\ modal.display
    /\ c # modal.category
    /\ modal' = updateModalOptions([modal EXCEPT !.category = c], data)
    /\ err' = "none"
    /\ UNCHANGED <<proteins, phase, colors, shapes, data, xLabels, yDomain, bins,
                   jitter, violin, violinsShown, drawn, colorRows, shapeRows>>

\* the user checks a radio of #panel-body-value: no handler is attached
CheckValue(key) ==
    /\ modal.display
    /\ key \in Range(modal.options)
    /\ key # modal.checked
    /\ modal' = [modal EXCEPT !.checked = key]
    /\ err' = "none"
    /\ UNCHANGED <<proteins, phase, colors, shapes, data, xLabels, yDomain, bins,
                   jitter, violin, violinsShown, drawn, colorRows, shapeRows>>

\* the user picks a colour in input#modal-selected, or checks a radio-shape input
SetInput(v) ==
    /\ modal.display
    /\ \/ modal.input.kind = "color" /\ v \in Range(ColorChoices)
       \/ modal.input.kind = "radio" /\ v \in Range(ShapeChoices)
    /\ v # modal.input.value
    /\ modal' = [modal EXCEPT !.input.value = v]
    /\ err' = "none"
    /\ UNCHANGED <<proteins, phase, colors, shapes, data, xLabels, yDomain, bins,
                   jitter, violin, violinsShown, drawn, colorRows, shapeRows>>

Rules == (Len(colors) - 1) + (Len(shapes) - 1)

modalOKNoThrow ==
    /\ modal' = [modal EXCEPT !.display = FALSE]
    /\ err' = "none"
    /\ IF modal.type = "Color"
       THEN /\ colors' = MapSet(colors, modal.checked, modal.input.value)
            /\ data' = updatePointColors(colors', data)
            /\ colorRows' = updateTableColor(colors')
            /\ drawn' = plotData(data')
            /\ UNCHANGED <<shapes, shapeRows>>
       ELSE /\ shapes' = MapSet(shapes, modal.checked, modal.input.value)
            /\ data' = updatePointShapes(shapes', data)
            /\ shapeRows' = updateTableShape(shapes')
            /\ drawn' = plotData(data')
            /\ UNCHANGED <<colors, colorRows>>

modalOKBeforeSet ==
    /\ modal' = [modal EXCEPT !.display = FALSE]
    /\ IF modal.checked = NoneChecked
       THEN /\ err' = "TypeError"
            /\ UNCHANGED <<colors, shapes, data, drawn, colorRows, shapeRows>>
       ELSE IF modal.type = "Color"
       THEN /\ colors' = MapSet(colors, modal.checked, modal.input.value)
            /\ data' = updatePointColors(colors, data)
            /\ colorRows' = updateTableColor(colors')
            /\ drawn' = plotData(data')
            /\ err' = "none"
            /\ UNCHANGED <<shapes, shapeRows>>
       ELSE IF modal.input.value = NoneChecked
       THEN /\ err' = "TypeError"
            /\ UNCHANGED <<colors, shapes, data, drawn, colorRows, shapeRows>>
       ELSE /\ shapes' = MapSet(shapes, modal.checked, modal.input.value)
            /\ data' = updatePointShapes(shapes, data)
            /\ shapeRows' = updateTableShape(shapes')
            /\ drawn' = plotData(data')
            /\ err' = "none"
            /\ UNCHANGED <<colors, colorRows>>

modalOK ==
    /\ modal' = [modal EXCEPT !.display = FALSE]
    /\ IF modal.checked = NoneChecked
       THEN /\ err' = "TypeError"
            /\ UNCHANGED <<colors, shapes, data, drawn, colorRows, shapeRows>>
       ELSE IF modal.type = "Color"
       THEN /\ colors' = MapSet(colors, modal.checked, modal.input.value)
            /\ data' = updatePointColors(colors', data)
            /\ colorRows' = updateTableColor(colors')
            /\ drawn' = plotData(data')
            /\ err' = "none"
            /\ UNCHANGED <<shapes, shapeRows>>
       ELSE IF modal.input.value = NoneChecked
       THEN /\ err' = "TypeError"
            /\ UNCHANGED <<colors, shapes, data, drawn, colorRows, shapeRows>>
       ELSE /\ shapes' = MapSet(shapes, modal.checked, modal.input.value)
            /\ data' = updatePointShapes(shapes', data)
            /\ shapeRows' = updateTableShape(shapes')
            /\ drawn' = plotData(data')
            /\ err' = "none"
            /\ UNCHANGED <<colors, colorRows>>

\* a#modal-apply; the model stops adding keys once the tables hold MaxRules of them
ApplyClick ==
    /\ phase = "ready"
    /\ modal.display
    /\ \/ modal.checked = NoneChecked
       \/ Rules < MaxRules
       \/ modal.type = "Color" /\ MapHas(colors, modal.checked)
       \/ modal.type = "Shape" /\ MapHas(shapes, modal.checked)
    /\ modalOK
    /\ UNCHANGED <<proteins, phase, xLabels, yDomain, bins, jitter, violin, violinsShown>>

closeAndApply ==
    /\ modal' = [modal EXCEPT !.display = FALSE]
    /\ colors' = IF modal.checked = NoneChecked THEN colors
                 ELSE MapSet(colors, modal.checked, DefaultColor)
    /\ UNCHANGED shapes

close ==
    /\ modal' = [modal EXCEPT !.display = FALSE]
    /\ UNCHANGED <<colors, shapes>>

\* a.close of the dialog
CloseClick ==
    /\ phase = "ready"
    /\ modal.display
    /\ close
    /\ err' = "none"
    /\ UNCHANGED <<proteins, phase, data, xLabels, yDomain, bins,
                   jitter, violin, violinsShown, drawn, colorRows, shapeRows>>

-----------------------------------------------------------------------------
(* a.row-close of a row of the colour or the shape table *)

rowCloseNoGuard(kind, key) ==
    /\ err' = "none"
    /\ IF kind = "Color"
       THEN /\ colors' = MapDelete(colors, key)
            /\ data' = updatePointColors(colors', data)
            /\ colorRows' = updateTableColor(colors')
            /\ drawn' = plotData(data')
            /\ UNCHANGED <<shapes, shapeRows>>
       ELSE /\ shapes' = MapDelete(shapes, key)
            /\ data' = updatePointShapes(shapes', data)
            /\ shapeRows' = updateTableShape(shapes')
            /\ drawn' = plotData(data')
            /\ UNCHANGED <<colors, colorRows>>

rowCloseNoUpdate(kind, key) ==
    /\ err' = "none"
    /\ IF key = "Default"
       THEN UNCHANGED <<colors, shapes, data, drawn, colorRows, shapeRows>>
       ELSE IF kind = "Color"
       THEN /\ colors' = MapDelete(colors, key)
            /\ colorRows' = updateTableColor(colors')
            /\ UNCHANGED <<shapes, shapeRows, data, drawn>>
       ELSE /\ shapes' = MapDelete(shapes, key)
            /\ shapeRows' = updateTableShape(shapes')
            /\ UNCHANGED <<colors, colorRows, data, drawn>>

rowClose(kind, key) ==
    /\ err' = "none"
    /\ IF key = "Default"
       THEN UNCHANGED <<colors, shapes, data, drawn, colorRows, shapeRows>>
       ELSE IF kind = "Color"
       THEN /\ colors' = MapDelete(colors, key)
            /\ data' = updatePointColors(colors', data)
            /\ colorRows' = updateTableColor(colors')
            /\ drawn' = plotData(data')
            /\ UNCHANGED <<shapes, shapeRows>>
       ELSE /\ shapes' = MapDelete(shapes, key)
            /\ data' = updatePointShapes(shapes', data)
            /\ shapeRows' = updateTableShape(shapes')
            /\ drawn' = plotData(data')
            /\ UNCHANGED <<colors, colorRows>>

RowCloseClick(kind, key) ==
    /\ phase = "ready"
    /\ key \in Range(IF kind = "Color" THEN colorRows ELSE shapeRows)
    /\ rowClose(kind, key)
    /\ UNCHANGED <<proteins, phase, xLabels, yDomain, bins, jitter, violin,
                   violinsShown, modal>>

-----------------------------------------------------------------------------
(* onchange of #cb-jitter and #cb-violin (index.js) *)

\* window.bioActivityGraph is undefined until the constructor has returned
ToggleJitter ==
    /\ phase # "nodata"
    /\ jitter' = ~jitter
    /\ IF phase = "ready"
       THEN /\ \E rnd \in Randoms(data, jitter') :
                 data' = updatePointPositions(data, xLabels, yDomain, jitter', violin, rnd)
            /\ drawn' = plotData(data')
            /\ err' = "none"
       ELSE /\ err' = "TypeError"
            /\ UNCHANGED <<data, drawn>>
    /\ UNCHANGED <<proteins, phase, colors, shapes, xLabels, yDomain, bins, violin,
                   violinsShown, colorRows, shapeRows, modal>>

ToggleViolin ==
    /\ phase # "nodata"
    /\ violin' = ~violin
    /\ IF phase = "ready"
       THEN /\ \E rnd \in Randoms(data, jitter) :
                 data' = updatePointPositions(data, xLabels, yDomain, jitter, violin', rnd)
            /\ drawn' = plotData(data')
            /\ violinsShown' = violin'
            /\ err' = "none"
       ELSE /\ err' = "TypeError"
            /\ UNCHANGED <<data, drawn, violinsShown>>
    /\ UNCHANGED <<proteins, phase, colors, shapes, xLabels, yDomain, bins, jitter,
                   colorRows, shapeRows, modal>>

-----------------------------------------------------------------------------

Next ==
    \/ Construct
    \/ \E kind \in Kinds : AddClick(kind)
    \/ \E c \in Range(Categories) : CategoryChange(c)
    \/ \E key \in Range(modal.options) : CheckValue(key)
    \/ \E v \in Range(ColorChoices) \cup Range(ShapeChoices) : SetInput(v)
    \/ ApplyClick
    \/ CloseClick
    \/ \E kind \in Kinds, key \in Range(colorRows) \cup Range(shapeRows) :
           RowCloseClick(kind, key)
    \/ ToggleJitter
    \/ ToggleViolin

Spec == Init /\ [][Next]_vars

\* the constructor alone, over every record of the input bounds
SpecLoad == InitLoad /\ [][Construct]_vars

InitCross == proteins \in CrossInputs /\ Blank

\* the interaction over the records of CrossInputs
SpecCross == InitCross /\ [][Next]_vars

InitScale == proteins \in ScaleInputs /\ Blank

\* the constructor alone, over the concentrations of the scale bounds
SpecScale == InitScale /\ [][Construct]_vars

\* the constructor and the two check boxes, over every record of the input bounds
SpecLayout == InitLoad /\ [][Construct \/ ToggleJitter \/ ToggleViolin]_vars

-----------------------------------------------------------------------------
(* Properties *)

Tables == <<colors, shapes>>

Selected ==
    /\ modal.checked # NoneChecked
    /\ modal.type = "Color" \/ modal.input.value # NoneChecked

\* the entries of a table other than the one of key, in their order
Without(table, key) == SelectSeq(table, LAMBDA e : e.k # key)

Fresh(table, d, field) ==
    \A i \in DOMAIN d : Get(d[i], field) = resolve(table, d[i], field)[field]

\* C1: after any confirm and any removal of a row, the colour table and the shape
\* table each still hold the entry keyed "Default".
C1_DefaultKept ==
    phase = "ready" => MapHas(colors, "Default") /\ MapHas(shapes, "Default")

C1_Witness ==
    /\ phase = "ready"
    /\ Len(colors) = 2 /\ Len(shapes) = 2
    /\ colors[1].k = "Default" /\ shapes[1].k = "Default"

\* C2: clicking the close anchor of the "Default" row of either table changes
\* neither table, no point and nothing drawn, and throws nothing.
C2_DefaultRowNoOp ==
    [][\A kind \in Kinds :
          RowCloseClick(kind, "Default") =>
              /\ UNCHANGED <<colors, shapes, data, drawn, colorRows, shapeRows>>
              /\ err' = "none"]_vars

C2_Witness ==
    /\ phase = "ready"
    /\ "Default" \in Range(colorRows) /\ "Default" \in Range(shapeRows)
    /\ Len(colors) > 1
    /\ \E i \in DOMAIN data : data[i].color # MapGet(colors, "Default")

\* the resolution as C3 states it: the first entry other than "Default", in table
\* order, whose key is a value of the point; the value of "Default" if there is none
ClaimedResolve(table, p, field) ==
    LET p0 == Put(p, field, MapGet(table, "Default"))
        hits == {i \in DOMAIN table :
                    table[i].k # "Default" /\ table[i].k \in ObjectValues(p0)}
    IN  IF hits = {} THEN MapGet(table, "Default")
        ELSE table[CHOOSE i \in hits : \A j \in hits : i <= j].v

\* C3: resolution scans the entries other than "Default" in insertion order and
\* gives the point the value of the first whose key is a value of the point, and
\* the value of "Default" when none matches.
C3_FirstNonDefaultMatch ==
    phase = "ready" =>
        \A i \in DOMAIN data :
            /\ resolve(colors, data[i], "color").color = ClaimedResolve(colors, data[i], "color")
            /\ resolve(shapes, data[i], "shape").shape = ClaimedResolve(shapes, data[i], "shape")
            /\ data[i].color = ClaimedResolve(colors, data[i], "color")
            /\ data[i].shape = ClaimedResolve(shapes, data[i], "shape")

\* C4: whenever points are drawn, every point has a colour and a shape, and the
\* shape is one plotData can draw.
C4_PointsDefined ==
    phase = "ready" =>
        /\ Len(drawn) = Len(data)
        /\ \A i \in DOMAIN drawn :
              /\ drawn[i].fill # Undefined
              /\ drawn[i].shape \in Range(ShapeOpts)
        /\ \A i \in DOMAIN data :
              Get(data[i], "color") # Undefined /\ Get(data[i], "shape") # Undefined

C4_Witness ==
    /\ phase = "ready"
    /\ Len(colors) > 1 /\ Len(shapes) > 1
    /\ \E i, j \in DOMAIN drawn :
          /\ drawn[i].fill # DefaultColor /\ drawn[i].shape # "Circle"
          /\ drawn[j].fill = MapGet(colors, "Default")

\* C5: Apply hides the dialog; with a key and a value selected it sets the entry of
\* that key to that value in the table of the dialog's kind, keeps every other
\* entry and the other table, and every point's attribute of that kind is then the
\* resolution against the table as it now is.
C5_ConfirmApplies ==
    [][ApplyClick =>
          /\ ~modal'.display
          /\ (Selected /\ modal.type = "Color") =>
                /\ MapGet(colors', modal.checked) = modal.input.value
                /\ Without(colors', modal.checked) = Without(colors, modal.checked)
                /\ shapes' = shapes
          /\ (Selected /\ modal.type = "Shape") =>
                /\ MapGet(shapes', modal.checked) = modal.input.value
                /\ Without(shapes', modal.checked) = Without(shapes, modal.checked)
                /\ colors' = colors
          /\ modal.type = "Color" => Fresh(colors', data', "color")
          /\ modal.type = "Shape" => Fresh(shapes', data', "shape")]_vars

C5_Witness ==
    /\ phase = "ready" /\ ~modal.display /\ err = "none"
    /\ modal.type = "Shape" /\ Selected
    /\ MapGet(shapes, modal.checked) = modal.input.value
    /\ modal.input.value # MapGet(shapes, "Default")
    /\ \E i, j \in DOMAIN data :
          data[i].shape = modal.input.value /\ data[j].shape = MapGet(shapes, "Default")

\* C6: the close anchor hides the dialog and changes nothing else, and no step of
\* a session (opening, choosing a category, a key, a value, closing) changes a
\* table, a point, a check box or the bins.
C6_CancelMutatesNothing ==
    [][/\ CloseClick =>
             /\ ~modal'.display
             /\ UNCHANGED <<colors, shapes, data, drawn, colorRows, shapeRows>>
       /\ (\/ CloseClick
           \/ \E kind \in Kinds : AddClick(kind)
           \/ \E c \in Range(Categories) : CategoryChange(c)
           \/ \E key \in Range(modal.options) : CheckValue(key)
           \/ \E v \in Range(ColorChoices) \cup Range(ShapeChoices) : SetInput(v))
             => UNCHANGED <<colors, shapes, data, jitter, violin, bins>>]_vars

C6_Witness ==
    /\ phase = "ready" /\ ~modal.display /\ err = "none"
    /\ modal.type = "Color" /\ modal.checked # NoneChecked
    /\ ~MapHas(colors, modal.checked)
    /\ Len(colors) = 1

\* C7: an Add button shows the dialog with the kind of that button; the kind
\* changes at no other step; Apply writes to the table of that kind alone.
C7_SessionKind ==
    [][/\ \A kind \in Kinds :
             AddClick(kind) => modal'.display /\ modal'.type = kind
       /\ modal'.type # modal.type => \E kind \in Kinds : AddClick(kind)
       /\ ApplyClick =>
             /\ modal.type = "Color" => shapes' = shapes
             /\ modal.type = "Shape" => colors' = colors
             /\ Selected => \/ modal.type = "Color" /\ MapHas(colors', modal.checked)
                            \/ modal.type = "Shape" /\ MapHas(shapes', modal.checked)]_vars

C7_Witness ==
    /\ phase = "ready" /\ ~modal.display /\ err = "none"
    /\ modal.type = "Shape" /\ Selected
    /\ Len(colors) > 1
    /\ MapGet(shapes, modal.checked) = modal.input.value
    /\ ~MapHas(colors, modal.checked)

\* C8: the close anchor of a row other than "Default" deletes that entry alone
\* from its table, keeps the other table, and every point's attribute of that kind
\* is then the resolution against the table as it now is: a point no remaining key
\* matches has the value of "Default".
C8_RowRemoved ==
    [][\A kind \in Kinds, key \in Range(colorRows) \cup Range(shapeRows) :
          (key # "Default" /\ RowCloseClick(kind, key)) =>
              /\ kind = "Color" =>
                    /\ colors' = Without(colors, key)
                    /\ shapes' = shapes
                    /\ Fresh(colors', data', "color")
                    /\ \A i \in DOMAIN data' :
                          (\A j \in DOMAIN colors' : colors'[j].k \notin ObjectValues(data'[i]))
                              => data'[i].color = MapGet(colors', "Default")
              /\ kind = "Shape" =>
                    /\ shapes' = Without(shapes, key)
                    /\ colors' = colors
                    /\ Fresh(shapes', data', "shape")
                    /\ \A i \in DOMAIN data' :
                          (\A j \in DOMAIN shapes' : shapes'[j].k \notin ObjectValues(data'[i]))
                              => data'[i].shape = MapGet(shapes', "Default")]_vars

\* a rule that alone colours a point and alone leaves another one to "Default"
C8_Witness ==
    /\ phase = "ready"
    /\ Len(colors) = 2 /\ colors[2].k # "Default"
    /\ colors[2].v # MapGet(colors, "Default")
    /\ \E i, j \in DOMAIN data :
          data[i].color = colors[2].v /\ data[j].color = MapGet(colors, "Default")

\* C9: adding the same rule twice is adding it once, removing a key twice is
\* removing it once, and no click on Apply or on a row's close anchor throws.
C9_EditsIdempotentNeverFail ==
    phase = "ready" =>
        /\ \A t \in Range(Tables), key \in Range(modal.options), v \in Range(ShapeChoices) :
              /\ MapSet(MapSet(t, key, v), key, v) = MapSet(t, key, v)
              /\ MapDelete(MapDelete(t, key), key) = MapDelete(t, key)
        /\ err = "none"

\* the six properties loadData gives a point
SourceFields == {"symbol", "primaryAccession", "organism", "value", "type", "unit"}

\* index in the point list of the j-th activity of the i-th protein
PointIndex(ps, i, j) == SeqSum([h \in 1..(i - 1) |-> Len(ps[h].activities)]) + j

C11_EmptyOnlyForEmptyInput ==
    (proteins # <<>> /\ phase = "ready") => (Len(data) > 0 /\ Len(drawn) > 0)

\* what the constructor leaves when it returns at its first test
NothingBuilt ==
    /\ colors = <<>> /\ shapes = <<>>
    /\ data = <<>> /\ xLabels = <<>> /\ ~yDomain.valid /\ bins = <<>>
    /\ drawn = <<>> /\ colorRows = <<>> /\ shapeRows = <<>>
    /\ ~violinsShown
    /\ ~modal.display

\* C12: of an empty record list the constructor ends in the no-data state with no
\* error; no table, point, scale, bin, row or path exists then, and no handler
\* runs afterwards: no step leaves the no-data state.
C12_NoDataTerminal ==
    /\ [](proteins = <<>> => phase \in {"mounted", "nodata"} /\ NothingBuilt)
    /\ [](phase = "nodata" => proteins = <<>> /\ err = "none")
    /\ [][phase # "nodata"]_vars

C12_Witness == phase = "nodata" /\ proteins = <<>> /\ jitter /\ violin

\* C13: a record whose protein has no organism is loaded all the same: the
\* constructor ends with the chart drawn and the organism of its points undefined.
C13_MissingOrganismTolerated ==
    ((\E i \in DOMAIN proteins : ~proteins[i].protein.organism.defined)
        /\ phase # "mounted")
    => /\ phase = "ready"
       /\ Len(drawn) = SeqSum([i \in DOMAIN proteins |-> Len(proteins[i].activities)])

\* C14: while neither check box is checked, the x of every point is the start of
\* the band of its type plus half the band width (in the unit of BandStart), so
\* the points of one type have the same x, and the paths are drawn there.
C14_CentredWithoutJitter ==
    (phase = "ready" /\ ~jitter /\ ~violin) =>
        \A i \in DOMAIN data :
            /\ 2 * data[i].x = 2 * BandStart(Len(xLabels), IndexOf(xLabels, data[i].type))
                                 + Bandwidth(Len(xLabels))
            /\ \A j \in DOMAIN data : data[j].type = data[i].type => data[j].x = data[i].x
            /\ drawn[i].x = data[i].x

C14_Witness ==
    /\ phase = "ready" /\ ~jitter /\ ~violin
    /\ \E i, j, k \in DOMAIN data :
          /\ i # j /\ data[i].type = data[j].type /\ data[i].value # data[j].value
          /\ data[i].x = data[j].x
          /\ data[k].type # data[i].type /\ data[k].x # data[i].x

\* the number of times the value x is held by the buckets of one entry of the bins
InBuckets(bs, x) ==
    SeqSum([b \in DOMAIN bs |-> Cardinality({j \in DOMAIN bs[b].values : bs[b].values[j] = x})])

\* C15: the bins hold one entry per type of the points, and the buckets of the
\* entry of a type hold each value of the points of that type as many times as
\* the points do: their sizes add up to the number of points of the type.
C15_BinsCoverPoints ==
    phase = "ready" =>
        /\ {bins[e].k : e \in DOMAIN bins} = {data[i].type : i \in DOMAIN data}
        /\ Len(bins) = Cardinality({data[i].type : i \in DOMAIN data})
        /\ \A e \in DOMAIN bins :
              LET ofType == {i \in DOMAIN data : data[i].type = bins[e].k}
              IN  /\ SeqSum([b \in DOMAIN bins[e].v |-> Len(bins[e].v[b].values)])
                        = Cardinality(ofType)
                  /\ \A i \in ofType :
                        InBuckets(bins[e].v, data[i].value)
                            = Cardinality({j \in ofType : data[j].value = data[i].value})

C15_Witness ==
    /\ phase = "ready"
    /\ Len(bins) = 2
    /\ \E e \in DOMAIN bins : \E a, b \in DOMAIN bins[e].v :
          a # b /\ bins[e].v[a].values # <<>> /\ bins[e].v[b].values # <<>>
    /\ \E e \in DOMAIN bins : \E a \in DOMAIN bins[e].v : Len(bins[e].v[a].values) = 2

\* the concentrations of the points
Values == [i \in DOMAIN data |-> data[i].value]

\* C16: the domain of the y scale of a chart with points, all of a positive
\* concentration, holds every concentration: its lower end is at most the least
\* and its upper end at least the greatest; of 10, 100, 1000 it holds 10 to 1000.
C16_DomainHoldsValues ==
    (phase = "ready" /\ data # <<>> /\ \A i \in DOMAIN data : data[i].value > 0) =>
        /\ yDomain.valid
        /\ \A i \in DOMAIN data : yDomain.lo <= data[i].value /\ data[i].value <= yDomain.hi
        /\ Values = <<10, 100, 1000>> => yDomain.lo <= 10 /\ 1000 <= yDomain.hi

C16_Witness ==
    /\ phase = "ready"
    /\ Values = <<10, 100, 1000>>
    /\ yDomain = [valid |-> TRUE, lo |-> 10, hi |-> 1000]

\* C17: the domain of the y scale of a chart all of whose points have the same
\* concentration is not a single value: its lower end is below its upper end.
C17_DomainNotCollapsed ==
    (phase = "ready" /\ data # <<>> /\ \A i, j \in DOMAIN data : data[i].value = data[j].value)
        => yDomain.valid /\ yDomain.lo < yDomain.hi

\* C18: a click on an Add button opens the dialog with no match key checked and
\* with the input of a new session (the colour #000000, or no shape checked),
\* whatever was chosen before the dialog was last hidden.
C18_FreshSessionOnOpen ==
    [][(~modal.display /\ \E kind \in Kinds : AddClick(kind)) =>
          /\ modal'.checked = NoneChecked
          /\ modal'.input.value \in {"#000000", NoneChecked}]_vars

\* C19: a change of the checked category replaces the options of the Value panel
\* by the distinct values the points have for that attribute, each once, and
\* leaves the dialog shown and of its kind, both tables and every point as they were.
C19_CategoryOptions ==
    [][\A c \in Range(Categories) : CategoryChange(c) =>
          /\ Range(modal'.options) = {ToStr(data[i][c]) : i \in DOMAIN data}
          /\ Len(modal'.options) = Cardinality({data[i][c] : i \in DOMAIN data})
          /\ modal'.display = modal.display /\ modal'.type = modal.type
          /\ UNCHANGED <<colors, shapes, data, drawn, colorRows, shapeRows>>]_vars

C19_Witness ==
    /\ modal.display
    /\ modal.category = "type"
    /\ modal.options = <<"IC50", "Ki">>
    /\ Len(data) = 2 /\ data[1].primaryAccession = data[2].primaryAccession

\* the points are the same but for their x
SameButX ==
    /\ Len(data') = Len(data)
    /\ \A i \in DOMAIN data :
          /\ DOMAIN data'[i] = DOMAIN data[i]
          /\ \A f \in (DOMAIN data[i]) \ {"x"} : data'[i][f] = data[i][f]

\* C20: a change of the jitter check box leaves the violin check box as it was,
\* and the other way round; either leaves both tables, the records, the scales
\* and the bins as they were, and the points as they were but for their x.
C20_ToggleFrame ==
    [][/\ ToggleJitter => (jitter' = ~jitter /\ violin' = violin)
       /\ ToggleViolin => (violin' = ~violin /\ jitter' = jitter)
       /\ (ToggleJitter \/ ToggleViolin) =>
             /\ UNCHANGED <<proteins, colors, shapes, colorRows, shapeRows,
                            xLabels, yDomain, bins>>
             /\ SameButX]_vars

C20_Witness ==
    /\ phase = "ready" /\ jitter /\ violin /\ violinsShown
    /\ Len(colors) = 2 /\ Len(shapes) = 2
    /\ \E i \in DOMAIN data :
          /\ data[i].color # DefaultColor /\ data[i].shape # "Circle"
          /\ 2 * data[i].x # 2 * BandStart(Len(xLabels), IndexOf(xLabels, data[i].type))
                               + Bandwidth(Len(xLabels))

\* distance of a point from the start of the band of its type, in the unit of x
Offset(p) == p.x - BandStart(Len(xLabels), IndexOf(xLabels, p.type))

\* C21: while the jitter check box is checked and the violin one is not, every
\* point lies between a quarter and three quarters of the band width from the
\* start of its band, whatever Math.random() returned.
C21_JitterInnerHalf ==
    (phase = "ready" /\ jitter /\ ~violin) =>
        \A i \in DOMAIN data :
            /\ Bandwidth(Len(xLabels)) <= 4 * Offset(data[i])
            /\ 4 * Offset(data[i]) <= 3 * Bandwidth(Len(xLabels))
            /\ drawn[i].x = data[i].x

C21_Witness ==
    /\ phase = "ready" /\ jitter /\ ~violin
    /\ \E i, j \in DOMAIN data :
          /\ data[i].type = data[j].type
          /\ 4 * Offset(data[i]) = Bandwidth(Len(xLabels))
          /\ 4 * Offset(data[j]) > Bandwidth(Len(xLabels))

\* C22: while both check boxes are checked, every point lies between a quarter
\* and a half of the band width from the start of its band, and the area drawn
\* for its type begins at or right of the middle of the band, right of the point.
C22_JitterBesideViolin ==
    (phase = "ready" /\ jitter /\ violin) =>
        \A i \in DOMAIN data :
            /\ Bandwidth(Len(xLabels)) <= 4 * Offset(data[i])
            /\ 2 * Offset(data[i]) <= Bandwidth(Len(xLabels))
            /\ \A e \in DOMAIN bins : bins[e].k = data[i].type =>
                  LET v == plotViolins(xLabels, bins)[e]
                  IN  /\ data[i].x <= v.x0
                      /\ 2 * (v.x0 - BandStart(Len(xLabels), IndexOf(xLabels, v.k)))
                             >= Bandwidth(Len(xLabels))
                      /\ \A b \in DOMAIN v.x1 : v.x0 <= v.x1[b]

C22_Witness ==
    /\ phase = "ready" /\ jitter /\ violin /\ violinsShown
    /\ \E i, j \in DOMAIN data :
          /\ data[i].type = data[j].type
          /\ 2 * Offset(data[i]) = Bandwidth(Len(xLabels))
          /\ 2 * Offset(data[j]) < Bandwidth(Len(xLabels))

\* index of the first point of type t
FirstSeen(t) == CHOOSE i \in DOMAIN data : data[i].type = t /\ \A j \in 1..(i - 1) : data[j].type # t

\* C23: the domain of the x scale holds the types of the points, each once, in
\* the order in which the point list first shows them.
C23_LabelsFirstSeen ==
    phase = "ready" =>
        /\ Range(xLabels) = {data[i].type : i \in DOMAIN data}
        /\ Len(xLabels) = Cardinality({data[i].type : i \in DOMAIN data})
        /\ \A a, b \in DOMAIN xLabels : a < b => FirstSeen(xLabels[a]) < FirstSeen(xLabels[b])

C23_Witness ==
    /\ phase = "ready"
    /\ xLabels = <<"Ki", "IC50">>
    /\ Len(data) = 3 /\ data[1].type = "Ki" /\ data[2].type = "IC50" /\ data[3].type = "Ki"

\* C24: the entry of each type holds nBins buckets; each bucket begins where the
\* one before ends, the first at the lower end of the domain of the y scale and
\* the last ends at its upper end, and every edge is a tick of the y scale
\* (stated for a domain of more than one value).
C24_TenContiguousBuckets ==
    (phase = "ready" /\ data # <<>> /\ yDomain.lo < yDomain.hi) =>
        \A e \in DOMAIN bins :
            LET bs == bins[e].v
            IN  /\ Len(bs) = nBins
                /\ bs[1].x0 = yDomain.lo /\ bs[Len(bs)].x1 = yDomain.hi
                /\ \A b \in 1..(Len(bs) - 1) : bs[b].x1 = bs[b + 1].x0
                /\ \A b \in DOMAIN bs : {bs[b].x0, bs[b].x1} \subseteq Range(Ticks(yDomain))

\* the point with the properties loadData gave it and no other
AsLoaded(p) == [f \in SourceFields |-> p[f]]

\* C25: once the chart is built, the color of every point is what the color
\* table resolves to for the point, and its shape what the shape table
\* resolves to, be it for the point as it is or for the point as it was loaded.
C25_NeverStale ==
    phase = "ready" =>
        \A i \in DOMAIN data :
            /\ data[i].color \in {resolve(colors, data[i], "color").color,
                                  resolve(colors, AsLoaded(data[i]), "color").color}
            /\ data[i].shape \in {resolve(shapes, data[i], "shape").shape,
                                  resolve(shapes, AsLoaded(data[i]), "shape").shape}

\* C26: the color of a point is a function of the color table and of what was
\* loaded: a step that leaves the color table as it was leaves the color of every
\* point as it was, whatever the shapes and the check boxes are; and likewise
\* for the shape and the shape table.
C26_ColorIgnoresShape ==
    [][phase = "ready" =>
          /\ colors' = colors => \A i \in DOMAIN data : data'[i].color = data[i].color
          /\ shapes' = shapes => \A i \in DOMAIN data : data'[i].shape = data[i].shape]_vars

\* C27: a change of a check box while the records are still being fetched throws
\* nothing.
C27_NoErrorBeforeChart ==
    phase = "mounted" => err = "none"

\* what stands for no value at all
NoValue == {Undefined, NoneChecked, "undefined"}

\* C28: a click on Apply while no match key is checked or, in a Shape session,
\* no shape is checked hides the dialog and leaves both tables, their rows and
\* the color and shape of every point as they were; and no table ever holds an
\* entry whose key or value is undefined.
C28_ConfirmWithoutSelection ==
    /\ [][(ApplyClick /\ ~Selected) =>
             /\ ~modal'.display
             /\ UNCHANGED <<colors, shapes, colorRows, shapeRows, drawn>>
             /\ \A i \in DOMAIN data :
                   data'[i].color = data[i].color /\ data'[i].shape = data[i].shape]_vars
    /\ [](\A t \in Range(Tables) : \A e \in DOMAIN t :
             t[e].k \notin NoValue /\ t[e].v \notin NoValue)

C28_Witness ==
    /\ phase = "ready" /\ ~modal.display /\ err = "TypeError"
    /\ modal.type = "Shape" /\ modal.checked # NoneChecked /\ modal.input.value = NoneChecked
    /\ Len(colors) = 2

\* C29: every key of either table other than "Default" is the accession, the
\* symbol or the type of a point, and every value of the shape table is one of
\* the seven shapes.
C29_KeysFromPoints ==
    /\ \A t \in Range(Tables) : \A e \in DOMAIN t :
          t[e].k # "Default" =>
              \E i \in DOMAIN data :
                  t[e].k \in {data[i].primaryAccession, data[i].symbol, data[i].type}
    /\ \A e \in DOMAIN shapes : shapes[e].v \in Range(ShapeOpts)

C29_Witness ==
    /\ Len(colors) = 2 /\ Len(shapes) = 2
    /\ \E i \in DOMAIN data : colors[2].k = data[i].type
    /\ \E i \in DOMAIN data : shapes[2].k = data[i].primaryAccession
    /\ shapes[2].v # "Circle"

\* C30: once the chart is built no step adds, removes or moves a point or
\* changes what loadData gave one: its symbol, accession, organism, value, type
\* and unit.
C30_PointsKept ==
    [][phase = "ready" =>
          /\ Len(data') = Len(data)
          /\ \A i \in DOMAIN data : \A f \in SourceFields : data'[i][f] = data[i][f]
          /\ \A i \in DOMAIN data :
                DOMAIN data'[i] = SourceFields \cup {"x", "y", "color", "shape"}]_vars

C30_Witness ==
    /\ phase = "ready" /\ jitter /\ violin
    /\ Len(data) = 2 /\ data[1].type # data[2].type
    /\ Len(colors) = 2 /\ Len(shapes) = 2
    /\ data[1].color # DefaultColor /\ data[1].shape # "Circle"

====
